---- MODULE Spec2Model ----
(***************************************************************************)
(* ccx_runner: a monitor for a CalculiX solver process.                    *)
(*                                                                         *)
(* src/src/solver.rs  spawn_reader_thread: a thread reads the solver's     *)
(*                    standard output line by line, keeps a small parser   *)
(*                    state and sends SolverMessage values on an mpsc      *)
(*                    channel.                                             *)
(* src/src/app.rs     MainApp::update: once per frame the GUI drains the   *)
(*                    channel with try_recv, applies the messages to the   *)
(*                    display state and handles the Run / Stop buttons.    *)
(*                                                                         *)
(* A line of text is a sequence of one-character strings, so that trim,    *)
(* starts_with, split_whitespace, split('=') and parse are computed on the *)
(* characters as the Rust code computes them.                              *)
(***************************************************************************)
EXTENDS Integers, Sequences, FiniteSets, TLC

\* ------------------------------------------------------------------ bounds

\* Run clicks with a selected input file (each creates one channel).
MaxRuns == 2
\* Lines one solver process writes to its standard output.
MaxLines == 2
\* Lines one solver process writes in the parser-only specification.
MaxParserLines == 3
\* Lines one solver process writes in the residual-counter specification.
MaxResidualLines == 5
\* Run clicks with no input file selected, per transcript.
MaxNoFile == 1
\* Messages sent on a channel in the consumer-only specification.
MaxDisplayLines == 5
MaxConsumerMsgs == 3

Runs == 1..MaxRuns

\* ------------------------------------------------- text (Rust str methods)

\* char::is_whitespace, on the characters the vocabulary uses.
Whitespace == {" "}

IsWhitespace(c) == c \in Whitespace

Digits == <<"0", "1", "2", "3", "4", "5", "6", "7", "8", "9">>

IsDigit(c) == \E i \in 1..10 : Digits[i] = c

DigitValue(c) == (CHOOSE i \in 1..10 : Digits[i] = c) - 1

RECURSIVE TrimStart(_)
\* str::trim_start
TrimStart(s) ==
    IF s # <<>> /\ IsWhitespace(Head(s)) THEN TrimStart(Tail(s)) ELSE s

RECURSIVE TrimEnd(_)
\* str::trim_end
TrimEnd(s) ==
    IF s # <<>> /\ IsWhitespace(s[Len(s)])
    THEN TrimEnd(SubSeq(s, 1, Len(s) - 1))
    ELSE s

\* str::trim
Trim(s) == TrimEnd(TrimStart(s))

\* str::starts_with(&str)
StartsWith(s, p) == Len(s) >= Len(p) /\ SubSeq(s, 1, Len(p)) = p

RECURSIVE SplitOn(_, _, _)
\* The pieces of s between the characters of seps, empty pieces included;
\* cur is the piece being collected.
SplitOn(s, seps, cur) ==
    IF s = <<>> THEN <<cur>>
    ELSE IF Head(s) \in seps THEN <<cur>> \o SplitOn(Tail(s), seps, <<>>)
    ELSE SplitOn(Tail(s), seps, Append(cur, Head(s)))

\* str::split_whitespace: the non-empty pieces between runs of whitespace.
SplitWhitespace(s) ==
    SelectSeq(SplitOn(s, Whitespace, <<>>), LAMBDA t : t # <<>>)

\* str::split('='): every piece, empty ones included.
SplitEq(s) == SplitOn(s, {"="}, <<>>)

\* u32::MAX = 4294967295, as its decimal digits (the number is beyond the
\* integers the model checker computes with).
U32MaxDigits == <<"4", "2", "9", "4", "9", "6", "7", "2", "9", "5">>

\* The result of a failed parse.
ParseErr == -1

RECURSIVE DigitsValue(_, _)
DigitsValue(s, acc) ==
    IF s = <<>> THEN acc
    ELSE DigitsValue(Tail(s), acc * 10 + DigitValue(Head(s)))

AllDigits(s) == \A i \in 1..Len(s) : IsDigit(s[i])

RECURSIVE StripZeros(_)
StripZeros(s) ==
    IF Len(s) > 1 /\ Head(s) = "0" THEN StripZeros(Tail(s)) ELSE s

RECURSIVE DigitsLeq(_, _)
\* a <= b, for two digit strings of the same length.
DigitsLeq(a, b) ==
    IF a = <<>> THEN TRUE
    ELSE IF Head(a) # Head(b) THEN DigitValue(Head(a)) < DigitValue(Head(b))
    ELSE DigitsLeq(Tail(a), Tail(b))

\* The number a digit string without leading zeros denotes fits a u32.
FitsU32(n) ==
    \/ Len(n) < Len(U32MaxDigits)
    \/ Len(n) = Len(U32MaxDigits) /\ DigitsLeq(n, U32MaxDigits)

\* The u32 a non-empty string of digits denotes, ParseErr on overflow.
ParseU32Digits(d) ==
    IF d = <<>> \/ ~AllDigits(d) THEN ParseErr
    ELSE IF ~FitsU32(StripZeros(d)) THEN ParseErr
    ELSE DigitsValue(d, 0)

\* str::parse::<u32>: an optional '+', then one or more decimal digits, the
\* value at most u32::MAX; ParseErr otherwise.
ParseU32(s) ==
    ParseU32Digits(IF s # <<>> /\ Head(s) = "+" THEN Tail(s) ELSE s)

\* An f64 is kept exactly as a decimal <<m, e>> = m * 10^(-e), with no
\* trailing zero in the fraction; 0.0 is <<0, 0>>.
RECURSIVE Normalize(_, _)
Normalize(m, e) ==
    IF m = 0 THEN <<0, 0>>
    ELSE IF e > 0 /\ m % 10 = 0 THEN Normalize(m \div 10, e - 1)
    ELSE <<m, e>>

\* f64::default()
F64Zero == <<0, 0>>

\* parts: the unsigned literal split at '.'.
ParseF64Parts(neg, parts) ==
    IF \/ Len(parts) > 2
       \/ \E i \in 1..Len(parts) : ~AllDigits(parts[i])
       \/ \A i \in 1..Len(parts) : parts[i] = <<>>
    THEN <<>>
    ELSE IF Len(parts) = 1
    THEN <<Normalize(IF neg THEN 0 - DigitsValue(parts[1], 0)
                     ELSE DigitsValue(parts[1], 0), 0)>>
    ELSE <<Normalize(IF neg THEN 0 - DigitsValue(parts[1] \o parts[2], 0)
                     ELSE DigitsValue(parts[1] \o parts[2], 0),
                     Len(parts[2]))>>

\* str::parse::<f64> on decimal literals: an optional sign, digits with an
\* optional '.', at least one digit in all.  <<>> is Err, <<v>> is Ok(v).
\* (Exponents and inf/nan, which Rust also accepts, are not in the
\* vocabulary.)
ParseF64(s) ==
    IF s # <<>> /\ Head(s) \in {"+", "-"}
    THEN ParseF64Parts(Head(s) = "-", SplitOn(Tail(s), {"."}, <<>>))
    ELSE ParseF64Parts(FALSE, SplitOn(s, {"."}, <<>>))

\* ----------------------------------------------------- the solver's lines

\* The prefixes the reader thread tests for (solver.rs:61, 77, 93, 96, 103).
PrefixStep == <<"S", "T", "E", "P">>
PrefixIncrement == <<"i", "n", "c", "r", "e", "m", "e", "n", "t", " ">>
PrefixIteration == <<"i", "t", "e", "r", "a", "t", "i", "o", "n", " ">>
PrefixTotalTime ==
    <<" ", "a", "c", "t", "u", "a", "l", " ", "t", "o", "t", "a", "l", " ",
      "t", "i", "m", "e", "=">>
PrefixResidual ==
    <<"l", "a", "r", "g", "e", "s", "t", " ", "r", "e", "s", "i", "d", "u",
      "a", "l", " ", "f", "o", "r", "c", "e", "=">>

\* "STEP 3"
LineStep3 ==
    <<"S", "T", "E", "P", " ", "3">>

\* "  STEP 1 "
LineStep1Indented ==
    <<" ", " ", "S", "T", "E", "P", " ", "1", " ">>

\* "STEP 1 2"
LineStep1Of2 ==
    <<"S", "T", "E", "P", " ", "1", " ", "2">>

\* "STEPS 2"
LineSteps2 ==
    <<"S", "T", "E", "P", "S", " ", "2">>

\* "STEP x"
LineStepBad ==
    <<"S", "T", "E", "P", " ", "x">>

\* "increment 7 of 2"
LineIncrement7Of2 ==
    <<"i", "n", "c", "r", "e", "m", "e", "n", "t", " ", "7", " ", "o",
      "f", " ", "2">>

\* " increment 1 attempt 1"
LineIncrementIndented ==
    <<" ", "i", "n", "c", "r", "e", "m", "e", "n", "t", " ", "1", " ",
      "a", "t", "t", "e", "m", "p", "t", " ", "1">>

\* "increment 7"
LineIncrementShort ==
    <<"i", "n", "c", "r", "e", "m", "e", "n", "t", " ", "7">>

\* "increment x of 2"
LineIncrementBad ==
    <<"i", "n", "c", "r", "e", "m", "e", "n", "t", " ", "x", " ", "o",
      "f", " ", "2">>

\* "increment 9 of x"
LineIncrementBadAttempt ==
    <<"i", "n", "c", "r", "e", "m", "e", "n", "t", " ", "9", " ", "o",
      "f", " ", "x">>

\* " iteration 1"
LineIteration ==
    <<" ", "i", "t", "e", "r", "a", "t", "i", "o", "n", " ", "1">>

\* " actual total time= 1.5"
LineTotalTime ==
    <<" ", "a", "c", "t", "u", "a", "l", " ", "t", "o", "t", "a", "l",
      " ", "t", "i", "m", "e", "=", " ", "1", ".", "5">>

\* "actual total time= 1.5"
LineTotalTimeNoSpace ==
    <<"a", "c", "t", "u", "a", "l", " ", "t", "o", "t", "a", "l", " ",
      "t", "i", "m", "e", "=", " ", "1", ".", "5">>

\* " actual total time= x"
LineTotalTimeBad ==
    <<" ", "a", "c", "t", "u", "a", "l", " ", "t", "o", "t", "a", "l",
      " ", "t", "i", "m", "e", "=", " ", "x">>

\* " largest residual force= 0.005 N"
LineResidual ==
    <<" ", "l", "a", "r", "g", "e", "s", "t", " ", "r", "e", "s", "i",
      "d", "u", "a", "l", " ", "f", "o", "r", "c", "e", "=", " ", "0",
      ".", "0", "0", "5", " ", "N">>

\* "largest residual force= bad"
LineResidualBad ==
    <<"l", "a", "r", "g", "e", "s", "t", " ", "r", "e", "s", "i", "d",
      "u", "a", "l", " ", "f", "o", "r", "c", "e", "=", " ", "b", "a", "d">>

\* "foo"
LineOther ==
    <<"f", "o", "o">>

\* The lines of the parser-only specification: every rule of the reader
\* thread, matched with and without leading whitespace, with fields that
\* parse and fields that do not.
ParserLines ==
    {LineStep3, LineStep1Indented, LineStep1Of2, LineSteps2, LineStepBad,
     LineIncrement7Of2, LineIncrementIndented, LineIncrementShort,
     LineIncrementBad, LineIncrementBadAttempt, LineIteration,
     LineTotalTime, LineTotalTimeNoSpace, LineTotalTimeBad, LineResidual,
     LineResidualBad, LineOther}

\* The lines of the residual-counter specification.
ResidualLines ==
    {LineStep3, LineStep1Indented, LineIncrement7Of2, LineIncrementBad,
     LineResidual, LineResidualBad}

\* The lines of the display specification (one reader thread and the drain
\* loop): two steps, an increment and a residual.
DisplayLines ==
    {LineStep3, LineStep1Indented, LineIncrement7Of2, LineResidual}

\* The lines of the full specification (reader thread and GUI interleaved).
SystemLines == {LineStep3, LineIncrement7Of2, LineResidual, LineOther}

\* ------------------------------------------------------- solver.rs: types

\* Option<T>: None is <<>>, Some(x) is <<x>>.
None == <<>>
Some(x) == <<x>>

\* StepInfo::default() (derive(Default): every field zero).
DefaultStepInfo ==
    [step |-> 0, increment |-> 0, attempt |-> 0, iterations |-> 0,
     total_time |-> F64Zero]

\* enum SolverMessage
MsgLine(line) == [tag |-> "Line", line |-> line]
MsgNewStepInfo(info) == [tag |-> "NewStepInfo", info |-> info]
MsgUpdateStepInfo(info) == [tag |-> "UpdateStepInfo", info |-> info]
MsgResidual(data) == [tag |-> "Residual", data |-> data]
MsgResetResiduals == [tag |-> "ResetResiduals"]

\* struct ResidualData
ResidualData(step, total_iteration, residual) ==
    [step |-> step, total_iteration |-> total_iteration,
     residual |-> residual]

\* ------------------------------------- solver.rs: the body of the for loop

\* One sender_clone.send(msg) of the loop body, with the thread's locals
\* (current_step_info, total_iterations_for_residual) as they are when the
\* send has returned Ok and the code up to the next send has run.
SendStep(msg, cur, cnt) == [msg |-> msg, cur |-> cur, cnt |-> cnt]

\* What a rule does to a line: the locals as the code before the rule's
\* first send leaves them, and the rule's sends in order.
RuleResult(cur, cnt, steps) == [cur |-> cur, cnt |-> cnt, steps |-> steps]

\* solver.rs:61 the condition of the STEP rule.
IsStepLine(line) == StartsWith(Trim(line), PrefixStep)

\* solver.rs:62-63 .last() of the tokens, parsed as u32.
ParseLastToken(toks) ==
    IF toks = <<>> THEN ParseErr ELSE ParseU32(toks[Len(toks)])

\* solver.rs:62-63 the step number: the last whitespace-separated token.
StepNumber(line) == ParseLastToken(SplitWhitespace(line))

\* StepParsed as it would be if the STEP rule changed the step number of the
\* open record instead of opening a fresh one.
StepParsedKeepsRecord(cur, cnt, step_num) ==
    IF step_num # ParseErr
    THEN LET info == IF cur = None
                     THEN [DefaultStepInfo EXCEPT !.step = step_num]
                     ELSE [cur[1] EXCEPT !.step = step_num]
         IN  RuleResult(Some(info), cnt,
                 <<SendStep(MsgNewStepInfo(info), Some(info), cnt)>>)
    ELSE RuleResult(cur, cnt, <<>>)

\* StepParsed as it would be if the record of a new step took over the
\* iterations of the record before it.
StepParsedIterationsKept(cur, cnt, step_num) ==
    IF step_num # ParseErr
    THEN LET info == [DefaultStepInfo EXCEPT
                         !.step = step_num,
                         !.iterations = IF cur = None THEN 0
                                        ELSE cur[1].iterations]
         IN  RuleResult(Some(info), cnt,
                 <<SendStep(MsgNewStepInfo(info), Some(info), cnt)>>)
    ELSE RuleResult(cur, cnt, <<>>)

\* StepParsed as it would be without the send of solver.rs:69: the record
\* is opened and no NewStepInfo is sent.
StepParsedSilent(cur, cnt, step_num) ==
    IF step_num # ParseErr
    THEN RuleResult(Some([DefaultStepInfo EXCEPT !.step = step_num]), cnt,
                    <<>>)
    ELSE RuleResult(cur, cnt, <<>>)

\* StepParsed as it would be if a new step zeroed the residual counter.
StepParsedCounterReset(cur, cnt, step_num) ==
    IF step_num # ParseErr
    THEN RuleResult(Some([DefaultStepInfo EXCEPT !.step = step_num]), 0,
             <<SendStep(
                 MsgNewStepInfo([DefaultStepInfo EXCEPT !.step = step_num]),
                 Some([DefaultStepInfo EXCEPT !.step = step_num]), 0)>>)
    ELSE RuleResult(cur, cnt, <<>>)

\* solver.rs:64-72 the step number parsed: a fresh record is opened and
\* sent; with no number the line changes nothing.
StepParsed(cur, cnt, step_num) ==
    IF step_num # ParseErr
    THEN RuleResult(Some([DefaultStepInfo EXCEPT !.step = step_num]), cnt,
             <<SendStep(
                 MsgNewStepInfo([DefaultStepInfo EXCEPT !.step = step_num]),
                 Some([DefaultStepInfo EXCEPT !.step = step_num]), cnt)>>)
    ELSE RuleResult(cur, cnt, <<>>)

\* solver.rs:61-74
StepRule(cur, cnt, line) == StepParsed(cur, cnt, StepNumber(line))

\* solver.rs:125-132 the send of the updated record.
UpdateSend(info, cnt) == SendStep(MsgUpdateStepInfo(info), Some(info), cnt)

\* solver.rs:77 the condition of the increment rule.
IsIncrementLine(line) == StartsWith(Trim(line), PrefixIncrement)

\* IncrementSends as it would be without the assignment of solver.rs:81:
\* the counter keeps its value across ResetResiduals.
IncrementSendsCounterKept(info, cnt, info2, updated) ==
    RuleResult(Some(info), cnt,
        <<SendStep(MsgResetResiduals, Some(info2), cnt)>>
        \o (IF updated THEN <<UpdateSend(info2, cnt)>> ELSE <<>>))

\* solver.rs:78-81, 125-132 the sends of the increment rule:
\* ResetResiduals first, the counter zeroed after it, and the updated
\* record info2 when the fields parsed.
IncrementSends(info, cnt, info2, updated) ==
    RuleResult(Some(info), cnt,
        <<SendStep(MsgResetResiduals, Some(info2), 0)>>
        \o (IF updated THEN <<UpdateSend(info2, 0)>> ELSE <<>>))

\* IncrementParsed as it would be without the assignment of solver.rs:88:
\* iterations keeps its value.
IncrementParsedIterationsKept(info, cnt, inc, att) ==
    IF inc # ParseErr /\ att # ParseErr
    THEN IncrementSends(info, cnt,
             [info EXCEPT !.increment = inc, !.attempt = att], TRUE)
    ELSE IncrementSends(info, cnt, info, FALSE)

\* IncrementParsed as it would be if each field were assigned when it
\* parses, whether or not the other does.
IncrementParsedFieldwise(info, cnt, inc, att) ==
    IF inc # ParseErr /\ att # ParseErr
    THEN IncrementSends(info, cnt,
             [info EXCEPT !.increment = inc, !.attempt = att,
                          !.iterations = 0], TRUE)
    ELSE IF inc # ParseErr
    THEN IncrementSends(info, cnt, [info EXCEPT !.increment = inc], FALSE)
    ELSE IF att # ParseErr
    THEN IncrementSends(info, cnt, [info EXCEPT !.attempt = att], FALSE)
    ELSE IncrementSends(info, cnt, info, FALSE)

\* solver.rs:84-91 both fields must parse for the record to change.
IncrementParsed(info, cnt, inc, att) ==
    IF inc # ParseErr /\ att # ParseErr
    THEN IncrementSends(info, cnt,
             [info EXCEPT !.increment = inc, !.attempt = att,
                          !.iterations = 0], TRUE)
    ELSE IncrementSends(info, cnt, info, FALSE)

\* IncrementParts as it would be if the send of ResetResiduals and the
\* zeroing of the counter stood inside the test of parts.len().
IncrementPartsResetNeedsFour(info, cnt, parts) ==
    IF Len(parts) >= 4
    THEN IncrementParsed(info, cnt, ParseU32(parts[2]), ParseU32(parts[4]))
    ELSE RuleResult(Some(info), cnt, <<>>)

\* solver.rs:83-85 parts[1] and parts[3] of at least four tokens.
IncrementParts(info, cnt, parts) ==
    IF Len(parts) >= 4
    THEN IncrementParsed(info, cnt, ParseU32(parts[2]), ParseU32(parts[4]))
    ELSE IncrementSends(info, cnt, info, FALSE)

\* solver.rs:78-92, 125-132
IncrementRule(info, cnt, line) ==
    IncrementParts(info, cnt, SplitWhitespace(line))

\* solver.rs:93 the condition of the iteration rule.
IsIterationLine(line) == StartsWith(Trim(line), PrefixIteration)

\* solver.rs:125-132 the record info2, changed before the send.
UpdatedResult(info2, cnt) ==
    RuleResult(Some(info2), cnt, <<UpdateSend(info2, cnt)>>)

\* IterationRule as it would be if iterations were set to the number
\* printed on the line instead of being counted.
IterationRuleFromLine(info, cnt, line) ==
    UpdatedResult([info EXCEPT !.iterations = StepNumber(line)], cnt)

\* solver.rs:94-95, 125-132
IterationRule(info, cnt, line) ==
    UpdatedResult([info EXCEPT !.iterations = info.iterations + 1], cnt)

\* IsTotalTimeLine as it would be if the line were trimmed first, as in the
\* three neighbouring rules.
IsTotalTimeLineTrimmed(line) == StartsWith(Trim(line), Tail(PrefixTotalTime))

\* solver.rs:96 the condition of the total-time rule: the untrimmed line.
IsTotalTimeLine(line) == StartsWith(line, PrefixTotalTime)

\* The second piece of line.split('='), if there is one.
SecondPiece(pieces) == IF Len(pieces) >= 2 THEN Some(pieces[2]) ELSE None

\* line.split('=').nth(1)
AfterFirstEq(line) == SecondPiece(SplitEq(line))

\* solver.rs:98 val_str.trim().parse::<f64>()
ParseTotalTime(val_str) ==
    IF val_str = None THEN None ELSE ParseF64(Trim(val_str[1]))

\* solver.rs:98-101
TotalTimeParsed(info, cnt, val) ==
    IF val # None
    THEN UpdatedResult([info EXCEPT !.total_time = val[1]], cnt)
    ELSE RuleResult(Some(info), cnt, <<>>)

\* solver.rs:97-102, 125-132
TotalTimeRule(info, cnt, line) ==
    TotalTimeParsed(info, cnt, ParseTotalTime(AfterFirstEq(line)))

\* solver.rs:103 the condition of the residual rule.
IsResidualLine(line) == StartsWith(Trim(line), PrefixResidual)

\* solver.rs:105-107 the first whitespace-separated token, parsed as f64.
ParseFirstToken(toks) == IF toks = <<>> THEN None ELSE ParseF64(toks[1])

\* solver.rs:104-107
ParseResidual(val_str) ==
    IF val_str = None THEN None
    ELSE ParseFirstToken(SplitWhitespace(Trim(val_str[1])))

\* ResidualParsed as it would be if the residual rule set updated = true
\* like the iteration and total-time rules.
ResidualParsedAlsoUpdates(info, cnt, residual) ==
    IF residual # None
    THEN RuleResult(Some(info), cnt + 1,
             <<SendStep(
                 MsgResidual(ResidualData(info.step, cnt + 1, residual[1])),
                 Some(info), cnt + 1),
               UpdateSend(info, cnt + 1)>>)
    ELSE RuleResult(Some(info), cnt, <<>>)

\* solver.rs:107-119 the counter is incremented before the send.
ResidualParsed(info, cnt, residual) ==
    IF residual # None
    THEN RuleResult(Some(info), cnt + 1,
             <<SendStep(
                 MsgResidual(ResidualData(info.step, cnt + 1, residual[1])),
                 Some(info), cnt + 1)>>)
    ELSE RuleResult(Some(info), cnt, <<>>)

\* solver.rs:104-122
ResidualRule(info, cnt, line) ==
    ResidualParsed(info, cnt, ParseResidual(AfterFirstEq(line)))

\* The record the sub-rules would work on if a missing record were
\* replaced by a default one.
RecordOrDefault(cur) == IF cur = None THEN DefaultStepInfo ELSE cur[1]

\* ApplyRule as it would be if the sub-rules ran on a default record when
\* no record is open (get_or_insert_with in place of as_mut).
ApplyRuleDefaultRecord(cur, cnt, line) ==
    IF IsStepLine(line) THEN StepRule(cur, cnt, line)
    ELSE IF IsIncrementLine(line)
    THEN IncrementRule(RecordOrDefault(cur), cnt, line)
    ELSE IF IsIterationLine(line)
    THEN IterationRule(RecordOrDefault(cur), cnt, line)
    ELSE IF IsTotalTimeLine(line)
    THEN TotalTimeRule(RecordOrDefault(cur), cnt, line)
    ELSE IF IsResidualLine(line)
    THEN ResidualRule(RecordOrDefault(cur), cnt, line)
    ELSE RuleResult(cur, cnt, <<>>)

\* ApplyRule as it would be if the total-time rule tested the trimmed line
\* like its three neighbours.
ApplyRuleTotalTimeTrimmed(cur, cnt, line) ==
    IF IsStepLine(line) THEN StepRule(cur, cnt, line)
    ELSE IF cur = None THEN RuleResult(cur, cnt, <<>>)
    ELSE IF IsIncrementLine(line) THEN IncrementRule(cur[1], cnt, line)
    ELSE IF IsIterationLine(line) THEN IterationRule(cur[1], cnt, line)
    ELSE IF StartsWith(Trim(line), Tail(PrefixTotalTime))
    THEN TotalTimeRule(cur[1], cnt, line)
    ELSE IF IsResidualLine(line) THEN ResidualRule(cur[1], cnt, line)
    ELSE RuleResult(cur, cnt, <<>>)

\* solver.rs:61-133 the rule that applies to a line: the STEP rule first,
\* then, with a record open, the first of the four sub-rules that matches.
ApplyRule(cur, cnt, line) ==
    IF IsStepLine(line) THEN StepRule(cur, cnt, line)
    ELSE IF cur = None THEN RuleResult(cur, cnt, <<>>)
    ELSE IF IsIncrementLine(line) THEN IncrementRule(cur[1], cnt, line)
    ELSE IF IsIterationLine(line) THEN IterationRule(cur[1], cnt, line)
    ELSE IF IsTotalTimeLine(line) THEN TotalTimeRule(cur[1], cnt, line)
    ELSE IF IsResidualLine(line) THEN ResidualRule(cur[1], cnt, line)
    ELSE RuleResult(cur, cnt, <<>>)

\* The locals after the last send of a rule.
EndOf(rule) ==
    IF rule.steps = <<>> THEN rule ELSE rule.steps[Len(rule.steps)]

\* WithLineSend as it would be if the trimmed text were sent.
WithLineSendTrimmed(rule, line) ==
    RuleResult(rule.cur, rule.cnt,
        Append(rule.steps,
               SendStep(MsgLine(Trim(line)), EndOf(rule).cur,
                        EndOf(rule).cnt)))

\* solver.rs:135-137 the send of SolverMessage::Line(line) follows the
\* rule's sends and changes no local.
WithLineSend(rule, line) ==
    RuleResult(rule.cur, rule.cnt,
        Append(rule.steps,
               SendStep(MsgLine(line), EndOf(rule).cur, EndOf(rule).cnt)))

\* solver.rs:60-138 the Ok(line) arm.
HandleLine(cur, cnt, line) == WithLineSend(ApplyRule(cur, cnt, line), line)

\* ------------------------------------------------------------------ state

VARIABLES
    \* struct MainApp (app.rs:22-35)
    solver_process,        \* Option<Arc<Mutex<Child>>>: 0 is None, else the run
    line_receiver,         \* Option<Receiver>: 0 is None, else the run's channel
    is_running,
    start_time,            \* Option<Instant>: TRUE is Some
    solver_output_buffer,  \* Vec<String>
    residual_data,         \* Vec<ResidualData>
    step_info,             \* Vec<StepInfo>
    \* where MainApp::update stands: "idle" between two frames, "drain" in the
    \* try_recv loop, "ui" at the buttons
    cpc,
    \* channels created so far (one per mpsc::channel() call, app.rs:250)
    runs,
    \* the mpsc channel of each run: queued messages, and whether the Sender
    \* is still alive
    queue,
    sender,
    \* the reader thread of each run (solver.rs:53-145): "none" before it is
    \* spawned, "read" at reader.lines().next(), "send" inside the loop body,
    \* "done" after the loop
    tpc,
    current_step_info,
    total_iterations_for_residual,
    pend,                  \* the sends of the current line still to make
    \* Child::kill() was called on the run's process
    killed,
    \* history: the lines thread r has read, the thread's locals before each
    \* of them, the messages it has sent with the number of the line each
    \* belongs to, and the messages the GUI has received from channel r
    input,
    before,
    emitted,
    applied,
    \* history: how many times the Disconnected arm ran for channel r, which
    \* paths consumed the process handle of run r, and the number of
    \* messages sent on channel r when Stop was handled (-1: not stopped)
    finalized,
    handleUse,
    stopMark

appVars ==
    <<solver_process, line_receiver, is_running, start_time,
      solver_output_buffer, residual_data, step_info, cpc, runs>>

threadVars ==
    <<tpc, current_step_info, total_iterations_for_residual, pend, input,
      before, emitted>>

vars ==
    <<solver_process, line_receiver, is_running, start_time,
      solver_output_buffer, residual_data, step_info, cpc, runs, queue,
      sender, tpc, current_step_info, total_iterations_for_residual, pend,
      killed, input, before, emitted, applied, finalized, handleUse,
      stopMark>>

\* MainApp::new (app.rs:38-55); no channel, thread or process exists.
Init ==
    /\ solver_process = 0
    /\ line_receiver = 0
    /\ is_running = FALSE
    /\ start_time = FALSE
    /\ solver_output_buffer = <<>>
    /\ residual_data = <<>>
    /\ step_info = <<>>
    /\ cpc = "idle"
    /\ runs = 0
    /\ queue = [r \in Runs |-> <<>>]
    /\ sender = [r \in Runs |-> FALSE]
    /\ tpc = [r \in Runs |-> "none"]
    /\ current_step_info = [r \in Runs |-> None]
    /\ total_iterations_for_residual = [r \in Runs |-> 0]
    /\ pend = [r \in Runs |-> <<>>]
    /\ killed = [r \in Runs |-> FALSE]
    /\ input = [r \in Runs |-> <<>>]
    /\ before = [r \in Runs |-> <<>>]
    /\ emitted = [r \in Runs |-> <<>>]
    /\ applied = [r \in Runs |-> <<>>]
    /\ finalized = [r \in Runs |-> 0]
    /\ handleUse = [r \in Runs |-> {}]
    /\ stopMark = [r \in Runs |-> -1]

\* -------------------------------------------- solver.rs: the reader thread

\* The receiver of channel r is alive while MainApp holds it.
ReceiverAlive(r) == line_receiver = r

\* The thread's variables once the code before the line's first send has
\* run: h is HandleLine of the line.
ReadLine(r, line, h) ==
    /\ input' = [input EXCEPT ![r] = Append(@, line)]
    /\ before' = [before EXCEPT
           ![r] = Append(@, [cur |-> current_step_info[r],
                             cnt |-> total_iterations_for_residual[r]])]
    /\ current_step_info' = [current_step_info EXCEPT ![r] = h.cur]
    /\ total_iterations_for_residual' =
           [total_iterations_for_residual EXCEPT ![r] = h.cnt]
    /\ pend' = [pend EXCEPT ![r] = h.steps]

\* solver.rs:58-60 reader.lines() yields Ok(line), a line the process wrote
\* (lines written before a kill stay readable in the pipe): the code before
\* the line's first send runs, and the line's sends are pending.
ReaderReadLine(r, lines, maxLines) ==
    /\ tpc[r] = "read"
    /\ Len(input[r]) < maxLines
    /\ \E line \in lines :
          ReadLine(r, line,
                   HandleLine(current_step_info[r],
                              total_iterations_for_residual[r], line))
    /\ tpc' = [tpc EXCEPT ![r] = "send"]
    /\ UNCHANGED <<appVars, queue, sender, killed, emitted, applied,
                   finalized, handleUse, stopMark>>

\* Sender::send returned Ok: the message is queued, and the thread runs on
\* to its next send or, after the send of Line, to the next read.
SendOk(r) ==
    LET s == Head(pend[r])
    IN  /\ queue' = [queue EXCEPT ![r] = Append(@, s.msg)]
        /\ emitted' = [emitted EXCEPT
               ![r] = Append(@, [ln |-> Len(input[r]), msg |-> s.msg])]
        /\ current_step_info' = [current_step_info EXCEPT ![r] = s.cur]
        /\ total_iterations_for_residual' =
               [total_iterations_for_residual EXCEPT ![r] = s.cnt]
        /\ pend' = [pend EXCEPT ![r] = Tail(@)]
        /\ tpc' = [tpc EXCEPT
               ![r] = IF Tail(pend[r]) = <<>> THEN "read" ELSE "send"]
        /\ UNCHANGED <<sender, input, before>>

\* SendErr as it would be with the result of send ignored (`let _ =`): the
\* message is lost and the thread runs on.
SendErrIgnored(r) ==
    /\ current_step_info' = [current_step_info EXCEPT ![r] = Head(pend[r]).cur]
    /\ total_iterations_for_residual' =
           [total_iterations_for_residual EXCEPT ![r] = Head(pend[r]).cnt]
    /\ pend' = [pend EXCEPT ![r] = Tail(@)]
    /\ tpc' = [tpc EXCEPT
           ![r] = IF Tail(pend[r]) = <<>> THEN "read" ELSE "send"]
    /\ UNCHANGED <<queue, emitted, sender, input, before>>

\* Sender::send returned Err (the receiver was dropped): break; the closure
\* returns and drops the sender (solver.rs:69-72, 78-80, 114-119, 126-131,
\* 135-137).  The sends the line still had stay unmade in pend.
SendErr(r) ==
    /\ tpc' = [tpc EXCEPT ![r] = "done"]
    /\ sender' = [sender EXCEPT ![r] = FALSE]
    /\ UNCHANGED <<queue, emitted, current_step_info,
                   total_iterations_for_residual, pend, input, before>>

\* One sender_clone.send(..) of the loop body.
ReaderSend(r) ==
    /\ tpc[r] = "send"
    /\ IF ReceiverAlive(r) THEN SendOk(r) ELSE SendErr(r)
    /\ UNCHANGED <<appVars, killed, applied, finalized, handleUse, stopMark>>

\* The for loop ends and the closure returns, dropping the sender.
ReaderExit(r) ==
    /\ tpc[r] = "read"
    /\ tpc' = [tpc EXCEPT ![r] = "done"]
    /\ sender' = [sender EXCEPT ![r] = FALSE]
    /\ UNCHANGED <<appVars, queue, killed, current_step_info,
                   total_iterations_for_residual, pend, input, before,
                   emitted, applied, finalized, handleUse, stopMark>>

\* solver.rs:58, 144 reader.lines() yields None: the process closed its
\* standard output (it ended, or it was killed).
ReaderEof(r) == ReaderExit(r)

\* ReaderErr as it would be if the error text were sent to the transcript
\* instead of being printed with eprintln.
ReaderErrReported(r) ==
    /\ tpc[r] = "read"
    /\ tpc' = [tpc EXCEPT ![r] = "done"]
    /\ sender' = [sender EXCEPT ![r] = FALSE]
    /\ queue' = [queue EXCEPT
           ![r] = Append(@, MsgLine(<<"Error reading line">>))]
    /\ emitted' = [emitted EXCEPT
           ![r] = Append(@, [ln |-> Len(input[r]),
                             msg |-> MsgLine(<<"Error reading line">>)])]
    /\ UNCHANGED <<appVars, killed, current_step_info,
                   total_iterations_for_residual, pend, input, before,
                   applied, finalized, handleUse, stopMark>>

\* solver.rs:139-142 reader.lines() yields Err(e): logged, break.
ReaderErr(r) == ReaderExit(r)

\* ------------------------------------------- app.rs: MainApp::update

\* ApplyMessage as it would be if UpdateStepInfo replaced the rows of the
\* snapshot's step instead of the last row.
ApplyMessageByStep(m, buffer, residuals, steps) ==
    CASE m.tag = "Line" -> <<Append(buffer, m.line), residuals, steps>>
      [] m.tag = "Residual" -> <<buffer, Append(residuals, m.data), steps>>
      [] m.tag = "ResetResiduals" -> <<buffer, <<>>, steps>>
      [] m.tag = "NewStepInfo" -> <<buffer, residuals, Append(steps, m.info)>>
      [] m.tag = "UpdateStepInfo" ->
            <<buffer, residuals,
              [j \in 1..Len(steps) |->
                  IF steps[j].step = m.info.step THEN m.info ELSE steps[j]]>>

\* ApplyMessage as it would be if ResetResiduals left the plot series as it
\* is.
ApplyMessageResetKept(m, buffer, residuals, steps) ==
    CASE m.tag = "Line" -> <<Append(buffer, m.line), residuals, steps>>
      [] m.tag = "Residual" -> <<buffer, Append(residuals, m.data), steps>>
      [] m.tag = "ResetResiduals" -> <<buffer, residuals, steps>>
      [] m.tag = "NewStepInfo" -> <<buffer, residuals, Append(steps, m.info)>>
      [] m.tag = "UpdateStepInfo" ->
            <<buffer, residuals,
              IF steps = <<>> THEN steps
              ELSE [steps EXCEPT ![Len(steps)] = m.info]>>

\* app.rs:86-98 one received message applied to the display state:
\* <<solver_output_buffer, residual_data, step_info>> afterwards.
ApplyMessage(m, buffer, residuals, steps) ==
    CASE m.tag = "Line" -> <<Append(buffer, m.line), residuals, steps>>
      [] m.tag = "Residual" -> <<buffer, Append(residuals, m.data), steps>>
      [] m.tag = "ResetResiduals" -> <<buffer, <<>>, steps>>
      [] m.tag = "NewStepInfo" -> <<buffer, residuals, Append(steps, m.info)>>
      [] m.tag = "UpdateStepInfo" ->
            <<buffer, residuals,
              IF steps = <<>> THEN steps
              ELSE [steps EXCEPT ![Len(steps)] = m.info]>>

\* app.rs:80-82 a frame begins: with a receiver the drain loop runs, without
\* one update goes straight to the widgets.
TickStart ==
    /\ cpc = "idle"
    /\ cpc' = IF line_receiver # 0 THEN "drain" ELSE "ui"
    /\ UNCHANGED <<solver_process, line_receiver, is_running, start_time,
                   solver_output_buffer, residual_data, step_info, runs,
                   queue, sender, killed, threadVars, applied, finalized,
                   handleUse, stopMark>>

\* TryRecvMessage as it would be if the newest queued message were taken.
TryRecvNewest(q) == q[Len(q)]

\* Receiver::try_recv: the oldest queued message.
TryRecvMessage(q) == Head(q)

\* RecvOk as it would be with `if let Ok(message)` in place of the loop:
\* one message per frame.
RecvOkOnePerFrame ==
    /\ cpc = "drain"
    /\ queue[line_receiver] # <<>>
    /\ LET r == line_receiver
           m == TryRecvMessage(queue[r])
           d == ApplyMessage(m, solver_output_buffer, residual_data,
                             step_info)
       IN  /\ queue' = [queue EXCEPT ![r] = Tail(@)]
           /\ applied' = [applied EXCEPT ![r] = Append(@, m)]
           /\ solver_output_buffer' = d[1]
           /\ residual_data' = d[2]
           /\ step_info' = d[3]
    /\ cpc' = "ui"
    /\ UNCHANGED <<solver_process, line_receiver, is_running, start_time,
                   runs, sender, killed, threadVars, finalized,
                   handleUse, stopMark>>

\* app.rs:85-98 try_recv returned Ok(message); the loop goes on.
RecvOk ==
    /\ cpc = "drain"
    /\ queue[line_receiver] # <<>>
    /\ LET r == line_receiver
           m == TryRecvMessage(queue[r])
           d == ApplyMessage(m, solver_output_buffer, residual_data,
                             step_info)
       IN  /\ queue' = [queue EXCEPT ![r] = Tail(@)]
           /\ applied' = [applied EXCEPT ![r] = Append(@, m)]
           /\ solver_output_buffer' = d[1]
           /\ residual_data' = d[2]
           /\ step_info' = d[3]
    /\ UNCHANGED <<solver_process, line_receiver, is_running, start_time,
                   cpc, runs, sender, killed, threadVars, finalized,
                   handleUse, stopMark>>

\* app.rs:99-102 try_recv returned Err(Empty): nothing queued, the sender
\* alive; the loop ends.
RecvEmpty ==
    /\ cpc = "drain"
    /\ queue[line_receiver] = <<>>
    /\ sender[line_receiver]
    /\ cpc' = "ui"
    /\ UNCHANGED <<solver_process, line_receiver, is_running, start_time,
                   solver_output_buffer, residual_data, step_info, runs,
                   queue, sender, killed, threadVars, applied, finalized,
                   handleUse, stopMark>>

\* Finalize as it would be without the assignment of app.rs:106: the
\* receiver is kept.
FinalizeKeepsReceiver == <<FALSE, line_receiver, 0, FALSE>>

\* app.rs:105-108 the assignments of the Disconnected arm:
\* <<is_running, line_receiver, solver_process, start_time>> afterwards.
Finalize == <<FALSE, 0, 0, FALSE>>

\* RecvDisconnected as it would be if the dropped sender were acted on
\* with messages still queued.
RecvDisconnectedEarly ==
    /\ cpc = "drain"
    /\ ~sender[line_receiver]
    /\ is_running' = Finalize[1]
    /\ line_receiver' = Finalize[2]
    /\ solver_process' = Finalize[3]
    /\ start_time' = Finalize[4]
    /\ finalized' = [finalized EXCEPT ![line_receiver] = @ + 1]
    /\ handleUse' = IF solver_process # 0 /\ Finalize[3] = 0
                    THEN [handleUse EXCEPT ![solver_process] = @ \cup {"final"}]
                    ELSE handleUse
    /\ cpc' = "ui"
    /\ UNCHANGED <<solver_output_buffer, residual_data, step_info, runs,
                   queue, sender, killed, threadVars, applied, stopMark>>

\* app.rs:103-110 try_recv returned Err(Disconnected): nothing queued and
\* the sender dropped; the run is finalized and the loop ends.
RecvDisconnected ==
    /\ cpc = "drain"
    /\ queue[line_receiver] = <<>>
    /\ ~sender[line_receiver]
    /\ is_running' = Finalize[1]
    /\ line_receiver' = Finalize[2]
    /\ solver_process' = Finalize[3]
    /\ start_time' = Finalize[4]
    /\ finalized' = [finalized EXCEPT ![line_receiver] = @ + 1]
    /\ handleUse' = IF solver_process # 0 /\ Finalize[3] = 0
                    THEN [handleUse EXCEPT ![solver_process] = @ \cup {"final"}]
                    ELSE handleUse
    /\ cpc' = "ui"
    /\ UNCHANGED <<solver_output_buffer, residual_data, step_info, runs,
                   queue, sender, killed, threadVars, applied, stopMark>>

\* StopAnalysis as it would be if the handler killed the process through
\* the stored handle without taking it, and left the channel to the drain
\* loop.
StopAnalysisHandleKept == <<solver_process, FALSE, line_receiver, FALSE>>

\* StopAnalysis as it would be without the assignment of app.rs:232:
\* is_running stays true.
StopAnalysisStillRunning == <<0, TRUE, 0, FALSE>>

\* app.rs:223-234 what the Stop handler leaves in
\* <<solver_process, is_running, line_receiver, start_time>>.
StopAnalysis == <<0, FALSE, 0, FALSE>>

\* StopHandler as it would be if the handler reported the stop in the
\* transcript.
StopHandlerReported ==
    /\ solver_process' = StopAnalysis[1]
    /\ is_running' = StopAnalysis[2]
    /\ line_receiver' = StopAnalysis[3]
    /\ start_time' = StopAnalysis[4]
    /\ killed' = IF solver_process # 0
                 THEN [killed EXCEPT ![solver_process] = TRUE]
                 ELSE killed
    /\ handleUse' = IF solver_process # 0
                    THEN [handleUse EXCEPT ![solver_process] = @ \cup {"stop"}]
                    ELSE handleUse
    /\ queue' = IF line_receiver # 0 /\ StopAnalysis[3] = 0
                THEN [queue EXCEPT ![line_receiver] = <<>>]
                ELSE queue
    /\ stopMark' = IF line_receiver # 0
                   THEN [stopMark EXCEPT
                            ![line_receiver] = Len(emitted[line_receiver])]
                   ELSE stopMark
    /\ cpc' = "idle"
    /\ solver_output_buffer' = Append(solver_output_buffer, <<"Stopped">>)
    /\ UNCHANGED <<residual_data, step_info, runs,
                   sender, threadVars, applied, finalized>>

\* app.rs:221-234 the body of the Stop handler: the handle, if there is
\* one, is taken and the process killed; the receiver is dropped, and the
\* messages still queued are dropped with it.
StopHandler ==
    /\ solver_process' = StopAnalysis[1]
    /\ is_running' = StopAnalysis[2]
    /\ line_receiver' = StopAnalysis[3]
    /\ start_time' = StopAnalysis[4]
    /\ killed' = IF solver_process # 0
                 THEN [killed EXCEPT ![solver_process] = TRUE]
                 ELSE killed
    /\ handleUse' = IF solver_process # 0
                    THEN [handleUse EXCEPT ![solver_process] = @ \cup {"stop"}]
                    ELSE handleUse
    /\ queue' = IF line_receiver # 0 /\ StopAnalysis[3] = 0
                THEN [queue EXCEPT ![line_receiver] = <<>>]
                ELSE queue
    /\ stopMark' = IF line_receiver # 0
                   THEN [stopMark EXCEPT
                            ![line_receiver] = Len(emitted[line_receiver])]
                   ELSE stopMark
    /\ cpc' = "idle"
    /\ UNCHANGED <<solver_output_buffer, residual_data, step_info, runs,
                   sender, threadVars, applied, finalized>>

\* app.rs:220-235 "Stop Analysis" is shown while is_running and was
\* clicked.
ClickStop ==
    /\ cpc = "ui"
    /\ is_running
    /\ StopHandler

\* The Stop handler run on whatever state the app is in: the cancel
\* operation requested at any time.
CancelRequest ==
    /\ cpc = "ui"
    /\ StopHandler

\* app.rs:277-278 the text pushed when no input file is selected.
NoFileSelected == <<"No '.inp' file selected.">>

\* app.rs:271-272 the text pushed when the process could not be spawned.
FailedToStart == <<"Failed to start process">>

\* app.rs:243-247, 276-279 "Run Analysis" clicked with no file selected.
ClickRunNoFile ==
    /\ cpc = "ui"
    /\ ~is_running
    /\ Len(SelectSeq(solver_output_buffer,
                     LAMBDA l : l = NoFileSelected)) < MaxNoFile
    /\ solver_output_buffer' = Append(solver_output_buffer, NoFileSelected)
    /\ cpc' = "idle"
    /\ UNCHANGED <<solver_process, line_receiver, is_running, start_time,
                   residual_data, step_info, runs, queue, sender, killed,
                   threadVars, applied, finalized, handleUse, stopMark>>

\* RunSetup as it would be without step_info.clear() (app.rs:256).
RunSetupTableKept(r) ==
    /\ runs' = r
    /\ line_receiver' = r
    /\ start_time' = TRUE
    /\ residual_data' = <<>>
    /\ step_info' = step_info
    /\ cpc' = "idle"

\* app.rs:250-256 a new channel replaces the receiver held so far and the
\* display state is cleared.
RunSetup(r) ==
    /\ runs' = r
    /\ line_receiver' = r
    /\ start_time' = TRUE
    /\ residual_data' = <<>>
    /\ step_info' = <<>>
    /\ cpc' = "idle"

\* app.rs:243-269 "Run Analysis" clicked with a file selected, and
\* spawn_process returned Ok(child): the reader thread is spawned with the
\* sender and the child is stored.
ClickRunSpawned ==
    /\ cpc = "ui"
    /\ ~is_running
    /\ runs < MaxRuns
    /\ LET r == runs + 1
       IN  /\ RunSetup(r)
           /\ is_running' = TRUE
           /\ solver_output_buffer' = <<>>
           /\ solver_process' = r
           /\ sender' = [sender EXCEPT ![r] = TRUE]
           /\ tpc' = [tpc EXCEPT ![r] = "read"]
    /\ UNCHANGED <<queue, killed, current_step_info,
                   total_iterations_for_residual, pend, input, before,
                   emitted, applied, finalized, handleUse, stopMark>>

\* ClickRunSpawnFailed as it would be without the assignment of
\* app.rs:273: is_running stays true.
ClickRunSpawnFailedStillRunning ==
    /\ cpc = "ui"
    /\ ~is_running
    /\ runs < MaxRuns
    /\ RunSetup(runs + 1)
    /\ is_running' = TRUE
    /\ solver_output_buffer' = <<FailedToStart>>
    /\ UNCHANGED <<solver_process, queue, sender, killed, threadVars,
                   applied, finalized, handleUse, stopMark>>

\* app.rs:243-265, 270-274 "Run Analysis" clicked with a file selected, and
\* spawn_process returned Err(e): no thread; the sender is dropped at the
\* end of the block, the receiver stays in line_receiver.
ClickRunSpawnFailed ==
    /\ cpc = "ui"
    /\ ~is_running
    /\ runs < MaxRuns
    /\ RunSetup(runs + 1)
    /\ is_running' = FALSE
    /\ solver_output_buffer' = <<FailedToStart>>
    /\ UNCHANGED <<solver_process, queue, sender, killed, threadVars,
                   applied, finalized, handleUse, stopMark>>

\* update returns with no button clicked.
NoClick ==
    /\ cpc = "ui"
    /\ cpc' = "idle"
    /\ UNCHANGED <<solver_process, line_receiver, is_running, start_time,
                   solver_output_buffer, residual_data, step_info, runs,
                   queue, sender, killed, threadVars, applied, finalized,
                   handleUse, stopMark>>

\* ---------------------------------------------------------- specifications

Reader(r) ==
    \/ ReaderReadLine(r, SystemLines, MaxLines)
    \/ ReaderSend(r)
    \/ ReaderEof(r)
    \/ ReaderErr(r)

Next ==
    \/ TickStart
    \/ RecvOk
    \/ RecvEmpty
    \/ RecvDisconnected
    \/ ClickStop
    \/ ClickRunNoFile
    \/ ClickRunSpawned
    \/ ClickRunSpawnFailed
    \/ NoClick
    \/ \E r \in Runs : Reader(r)

Spec == Init /\ [][Next]_vars

\* The reader thread of the first run alone, on its lines; the GUI starts
\* the run and enters the first frame after it.
ParserNext(lines, maxLines) ==
    \/ TickStart
    \/ ClickRunSpawned
    \/ ReaderReadLine(1, lines, maxLines)
    \/ ReaderSend(1)
    \/ ReaderEof(1)
    \/ ReaderErr(1)

NextParser == ParserNext(ParserLines, MaxParserLines)

SpecParser == Init /\ [][NextParser]_vars

NextResidual == ParserNext(ResidualLines, MaxResidualLines)

SpecResidual == Init /\ [][NextResidual]_vars

\* The messages of the consumer-only specification: every variant of
\* SolverMessage, with records of two different steps.
ConsumerMessages ==
    {MsgLine(LineOther),
     MsgNewStepInfo([DefaultStepInfo EXCEPT !.step = 1]),
     MsgNewStepInfo([DefaultStepInfo EXCEPT !.step = 2]),
     MsgUpdateStepInfo([DefaultStepInfo EXCEPT !.step = 1, !.increment = 1]),
     MsgUpdateStepInfo([DefaultStepInfo EXCEPT !.step = 2, !.increment = 2]),
     MsgResidual(ResidualData(1, 1, <<5, 3>>)),
     MsgResetResiduals}

\* Sender::send of any SolverMessage on channel r, by its live thread: the
\* consumer is run against every message sequence a sender can produce.
AnySend(r, maxMsgs) ==
    /\ tpc[r] = "read"
    /\ ReceiverAlive(r)
    /\ Len(emitted[r]) < maxMsgs
    /\ \E m \in ConsumerMessages :
          /\ queue' = [queue EXCEPT ![r] = Append(@, m)]
          /\ emitted' = [emitted EXCEPT
                 ![r] = Append(@, [ln |-> 0, msg |-> m])]
    /\ UNCHANGED <<appVars, sender, killed, tpc, current_step_info,
                   total_iterations_for_residual, pend, input, before,
                   applied, finalized, handleUse, stopMark>>

\* MainApp::update alone, draining the channel of the first run.
NextConsumer ==
    \/ TickStart
    \/ ClickRunSpawned
    \/ RecvOk
    \/ RecvEmpty
    \/ NoClick
    \/ AnySend(1, MaxConsumerMsgs)

SpecConsumer == Init /\ [][NextConsumer]_vars

\* One run from its start to its end: the reader thread on the display
\* lines and MainApp::update draining its channel.
NextDisplay ==
    \/ TickStart
    \/ ClickRunSpawned
    \/ RecvOk
    \/ RecvEmpty
    \/ RecvDisconnected
    \/ NoClick
    \/ ReaderReadLine(1, DisplayLines, MaxDisplayLines)
    \/ ReaderSend(1)
    \/ ReaderEof(1)
    \/ ReaderErr(1)

SpecDisplay == Init /\ [][NextDisplay]_vars

\* The app with the cancel operation requested in any state, not only
\* while the Stop button is shown.
NextCancel ==
    \/ TickStart
    \/ RecvOk
    \/ RecvEmpty
    \/ RecvDisconnected
    \/ ClickRunSpawned
    \/ NoClick
    \/ CancelRequest
    \/ \E r \in Runs : Reader(r)

SpecCancel == Init /\ [][NextCancel]_vars

\* ------------------------------------------------- vocabulary of the claims

\* The messages of a sequence of sent events.
Msgs(es) == [j \in 1..Len(es) |-> es[j].msg]

\* The messages thread r has sent while handling its i-th line.
EventsOfLine(r, i) == Msgs(SelectSeq(emitted[r], LAMBDA e : e.ln = i))

\* The loop body has run to its end for the i-th line of thread r: every
\* send of the line was made.
Completed(r, i) ==
    \/ i < Len(input[r])
    \/ i = Len(input[r]) /\ pend[r] = <<>>

\* The thread's locals after its i-th line, once the line is completed.
After(r, i) ==
    IF i < Len(input[r]) THEN before[r][i + 1]
    ELSE [cur |-> current_step_info[r],
          cnt |-> total_iterations_for_residual[r]]

\* How many messages of ms carry the tag.
CountTag(ms, tag) == Len(SelectSeq(ms, LAMBDA m : m.tag = tag))

\* The texts of the Line messages of ms, in order.
LinesOf(ms) ==
    LET ls == SelectSeq(ms, LAMBDA m : m.tag = "Line")
    IN  [j \in 1..Len(ls) |-> ls[j].line]

IsPrefix(a, b) == Len(a) <= Len(b) /\ SubSeq(b, 1, Len(a)) = a

\* A record as a STEP line opens it.
FreshRecord(n) ==
    [step |-> n, increment |-> 0, attempt |-> 0, iterations |-> 0,
     total_time |-> <<0, 0>>]

\* ----------------------------------------------------------------- claims

\* C1: every line the reader thread handles produces exactly one Line
\* (RawLine) message, carrying the untrimmed text of the line, and it is the
\* last message of the line: a structured message is followed by a message
\* of the same line, a Line message by a message of the next line.  (A line
\* is handled to its end unless a send fails on a dropped receiver, which
\* ends the thread.)
C1_RawLineLast ==
    \A r \in Runs :
        /\ \A j \in 1..(Len(emitted[r]) - 1) :
              emitted[r][j + 1].ln =
                  IF emitted[r][j].msg.tag = "Line"
                  THEN emitted[r][j].ln + 1
                  ELSE emitted[r][j].ln
        /\ \A i \in 1..Len(input[r]) :
              /\ Completed(r, i) =>
                    /\ EventsOfLine(r, i) # <<>>
                    /\ EventsOfLine(r, i)[Len(EventsOfLine(r, i))]
                           = MsgLine(input[r][i])
                    /\ CountTag(EventsOfLine(r, i), "Line") = 1
              /\ ~Completed(r, i) =>
                    /\ CountTag(EventsOfLine(r, i), "Line") = 0
                    /\ tpc[r] = "done" => ~ReceiverAlive(r)

\* C1 witness: a STEP line and a residual line with leading whitespace were
\* handled; the residual line sent Residual and then its own text.
C1_Witness ==
    \E r \in Runs :
        /\ input[r] = <<LineStep3, LineResidual>>
        /\ Completed(r, 2)
        /\ Len(EventsOfLine(r, 2)) = 2
        /\ EventsOfLine(r, 2)[1].tag = "Residual"
        /\ EventsOfLine(r, 2)[2] = MsgLine(LineResidual)

\* The lines of the transcript that came over the channel: the buffer
\* without the texts the Run handler pushes itself.
Transcript ==
    SelectSeq(solver_output_buffer,
              LAMBDA l : l # NoFileSelected /\ l # FailedToStart)

\* C2: Stop never drops an event the reader thread had sent before the
\* Stop was handled: once the run is over (the thread has ended and the GUI
\* has let go of the channel), every message sent before the Stop has been
\* applied.
C2_StopDropsNothing ==
    \A r \in Runs :
        (stopMark[r] >= 0 /\ tpc[r] = "done" /\ ~ReceiverAlive(r)) =>
            IsPrefix(SubSeq(Msgs(emitted[r]), 1, stopMark[r]), applied[r])

\* C3: the messages applied from a channel are a prefix of the messages
\* sent on it, in the order sent; and the transcript of the latest run is
\* the Line texts applied so far, a prefix of the lines read.
C3_AppliedPrefixOfEmitted ==
    \A r \in Runs :
        /\ IsPrefix(applied[r], Msgs(emitted[r]))
        /\ (runs = r /\ tpc[r] # "none") =>
              /\ Transcript = LinesOf(applied[r])
              /\ IsPrefix(Transcript, input[r])

\* C3 witness: the GUI is in the middle of a run's messages: it has applied
\* two of them, a Line among them, and more are queued.
C3_Witness ==
    \E r \in Runs :
        /\ ReceiverAlive(r)
        /\ Len(applied[r]) = 2
        /\ Len(emitted[r]) > 2
        /\ solver_output_buffer # <<>>

\* C4: when a run is finalized (the Disconnected arm has run for its
\* channel) the thread has ended, every message it sent has been applied,
\* and the transcript is the full sequence of lines read, in order.
C4_NothingLostAtFinalization ==
    \A r \in Runs :
        (finalized[r] >= 1 /\ tpc[r] # "none") =>
            /\ tpc[r] = "done"
            /\ stopMark[r] = -1
            /\ applied[r] = Msgs(emitted[r])
            /\ LinesOf(applied[r]) = input[r]
            /\ runs = r => Transcript = input[r]

\* C4 witness: a run of two lines was finalized with both in the transcript.
C4_Witness ==
    \E r \in Runs :
        /\ finalized[r] = 1
        /\ runs = r
        /\ Len(input[r]) = 2
        /\ solver_output_buffer = input[r]

\* The state in which the running try_recv on channel r finds nothing
\* queued.
PollsEmptyQueue(r) == cpc = "drain" /\ line_receiver = r /\ queue[r] = <<>>

\* C5: the finalization runs at a poll that reports Disconnected, and only
\* there; it sets not-running and releases receiver, handle and start time;
\* it runs at most once per channel; a poll that reports Empty (nothing
\* queued, sender alive) changes none of the four fields.
C5_FinalizedOnce ==
    [][\A r \in Runs :
          /\ finalized'[r] <= 1
          /\ finalized'[r] # finalized[r] =>
                /\ PollsEmptyQueue(r) /\ ~sender[r]
                /\ finalized[r] = 0
                /\ ~is_running' /\ line_receiver' = 0
                /\ solver_process' = 0 /\ ~start_time'
          /\ (PollsEmptyQueue(r) /\ cpc' = "ui") =>
                IF sender[r]
                THEN UNCHANGED <<is_running, line_receiver, solver_process,
                                 start_time, finalized>>
                ELSE finalized'[r] = finalized[r] + 1]_vars

\* C5 witness: a run whose thread read a line was finalized, and a later
\* frame began without a receiver.
C5_Witness ==
    \E r \in Runs :
        /\ finalized[r] = 1
        /\ input[r] # <<>>
        /\ ~is_running /\ line_receiver = 0 /\ solver_process = 0
        /\ cpc = "ui"
        /\ runs = r

\* C6: the only teardown of a run is the Disconnected arm: whenever the
\* GUI has let go of the channel of a run whose thread was spawned, it did
\* so by finalizing the run there.
C6_SingleTeardownPath ==
    \A r \in Runs :
        (tpc[r] # "none" /\ ~ReceiverAlive(r)) => finalized[r] = 1

\* C7: the process handle of a run is consumed by at most one of the Stop
\* handler and the Disconnected arm.
C7_HandleConsumedOnce ==
    \A r \in Runs : Cardinality(handleUse[r]) <= 1

\* C7 witness: one run's handle was taken by Stop, another run's handle
\* was released by the Disconnected arm.
C7_Witness ==
    \E r1, r2 \in Runs :
        /\ handleUse[r1] = {"stop"}
        /\ handleUse[r2] = {"final"}

\* C8: a line the STEP rule accepts with step number n (for "STEP 3" n = 3,
\* for "  STEP 1 " n = 1) replaces the open record, whatever it was, by the
\* fresh record {n, 0, 0, 0, 0} and sends exactly NewStepInfo with that
\* record and then Line; nothing else.
C8_StepLine ==
    \A r \in Runs : \A i \in 1..Len(input[r]) :
        (IsStepLine(input[r][i]) /\ StepNumber(input[r][i]) # ParseErr) =>
            /\ input[r][i] = LineStep3 => StepNumber(input[r][i]) = 3
            /\ input[r][i] = LineStep1Indented =>
                   StepNumber(input[r][i]) = 1
            /\ After(r, i).cur =
                   Some(FreshRecord(StepNumber(input[r][i])))
            /\ Completed(r, i) =>
                   EventsOfLine(r, i) =
                       <<MsgNewStepInfo(
                             FreshRecord(StepNumber(input[r][i]))),
                         MsgLine(input[r][i])>>

\* C8 witness: "  STEP 1 " was handled while a record with non-zero fields
\* was open and the residual counter was not zero.
C8_Witness ==
    \E r \in Runs :
        /\ Len(input[r]) = 3
        /\ input[r][3] = LineStep1Indented
        /\ Completed(r, 3)
        /\ before[r][3].cur # None
        /\ before[r][3].cur[1].step = 3
        /\ before[r][3].cur[1].increment = 7
        /\ current_step_info[r] = Some(FreshRecord(1))
        /\ EventsOfLine(r, 3) =
               <<MsgNewStepInfo(FreshRecord(1)), MsgLine(LineStep1Indented)>>

\* The tokens of the i-th line of thread r.
Parts(r, i) == SplitWhitespace(input[r][i])

\* The i-th line of thread r is an increment line of at least four tokens
\* whose second and fourth token parse, read with a record open.
IncrementParses(r, i) ==
    /\ before[r][i].cur # None
    /\ ~IsStepLine(input[r][i])
    /\ IsIncrementLine(input[r][i])
    /\ Len(Parts(r, i)) >= 4
    /\ ParseU32(Parts(r, i)[2]) # ParseErr
    /\ ParseU32(Parts(r, i)[4]) # ParseErr

\* The record an increment line leaves: increment and attempt from the
\* line, iterations zero, step and total_time as before the line.
IncrementSnapshot(r, i) ==
    [step |-> before[r][i].cur[1].step,
     increment |-> ParseU32(Parts(r, i)[2]),
     attempt |-> ParseU32(Parts(r, i)[4]),
     iterations |-> 0,
     total_time |-> before[r][i].cur[1].total_time]

\* C9: with a record open, an increment line of at least four tokens whose
\* token[1] and token[3] parse as i and a sends exactly ResetResiduals,
\* UpdateStepInfo, Line, in that order; afterwards the residual counter is
\* zero and the record (and the snapshot sent) has increment = i,
\* attempt = a, iterations = 0, step and total_time unchanged.
C9_IncrementLine ==
    \A r \in Runs : \A i \in 1..Len(input[r]) :
        (IncrementParses(r, i) /\ Completed(r, i)) =>
            /\ EventsOfLine(r, i) =
                   <<MsgResetResiduals,
                     MsgUpdateStepInfo(IncrementSnapshot(r, i)),
                     MsgLine(input[r][i])>>
            /\ After(r, i).cnt = 0
            /\ After(r, i).cur = Some(IncrementSnapshot(r, i))
            /\ input[r][i] = LineIncrement7Of2 =>
                   /\ IncrementSnapshot(r, i).increment = 7
                   /\ IncrementSnapshot(r, i).attempt = 2

\* C9 witness: "increment 7 of 2" was handled after "STEP 3" and a residual
\* line, so the counter was 1 before it.
C9_Witness ==
    \E r \in Runs :
        /\ input[r] = <<LineStep3, LineResidual, LineIncrement7Of2>>
        /\ Completed(r, 3)
        /\ before[r][3].cnt = 1
        /\ total_iterations_for_residual[r] = 0
        /\ current_step_info[r] =
               Some([FreshRecord(3) EXCEPT !.increment = 7, !.attempt = 2])

\* The position of the last ResetResiduals among the first j messages thread
\* r sent, 0 if there is none.
LastReset(r, j) ==
    LET ps == {p \in 1..j : emitted[r][p].msg.tag = "ResetResiduals"}
    IN  IF ps = {} THEN 0 ELSE CHOOSE p \in ps : \A q \in ps : q <= p

\* The Residual messages among the messages thread r sent after position
\* p, up to position j.
ResidualsBetween(r, p, j) ==
    Cardinality({q \in (p + 1)..j : emitted[r][q].msg.tag = "Residual"})

\* C10: the k-th Residual a thread sends after its most recent
\* ResetResiduals (or after its start) carries sample index k and the step
\* number of the record open at its line, and the counter is zero right
\* after every ResetResiduals.
C10_ResidualIndex ==
    \A r \in Runs : \A j \in 1..Len(emitted[r]) :
        /\ emitted[r][j].msg.tag = "Residual" =>
              /\ emitted[r][j].msg.data.total_iteration =
                     ResidualsBetween(r, LastReset(r, j), j)
              /\ before[r][emitted[r][j].ln].cur # None
              /\ emitted[r][j].msg.data.step =
                     before[r][emitted[r][j].ln].cur[1].step
        /\ (emitted[r][j].msg.tag = "ResetResiduals"
            /\ j = Len(emitted[r])) =>
              total_iterations_for_residual[r] = 0

\* C10 witness: two residuals in step 3 carried the indices 1 and 2, an
\* increment line reset the counter, and the next residual carried 1.
C10_Witness ==
    \E r \in Runs :
        /\ input[r] = <<LineStep3, LineResidual, LineResidual,
                        LineIncrement7Of2, LineResidual>>
        /\ Completed(r, 5)
        /\ EventsOfLine(r, 3)[1].data.total_iteration = 2
        /\ EventsOfLine(r, 5)[1] =
               MsgResidual(ResidualData(3, 1, <<5, 3>>))

\* The line passes none of the five prefix tests of the loop body.
MatchesNoPattern(line) ==
    /\ ~IsStepLine(line)
    /\ ~IsIncrementLine(line)
    /\ ~IsIterationLine(line)
    /\ ~IsTotalTimeLine(line)
    /\ ~IsResidualLine(line)

\* The positions in emitted[r] of the messages of the i-th line.
PositionsOfLine(r, i) == {j \in 1..Len(emitted[r]) : emitted[r][j].ln = i}

\* C11: a line that matches none of the patterns sends exactly one Line
\* with its own text and nothing else, and leaves the open record and the
\* residual counter as they were; two such lines in a row send two Line
\* messages next to each other, in the order read.
C11_UnmatchedLine ==
    \A r \in Runs : \A i \in 1..Len(input[r]) :
        MatchesNoPattern(input[r][i]) =>
            /\ After(r, i) = before[r][i]
            /\ Completed(r, i) =>
                   EventsOfLine(r, i) = <<MsgLine(input[r][i])>>
            /\ (i > 1 /\ MatchesNoPattern(input[r][i - 1])
                /\ Completed(r, i)) =>
                   \E j \in 2..Len(emitted[r]) :
                       /\ PositionsOfLine(r, i - 1) = {j - 1}
                       /\ PositionsOfLine(r, i) = {j}
                       /\ emitted[r][j - 1].msg = MsgLine(input[r][i - 1])
                       /\ emitted[r][j].msg = MsgLine(input[r][i])

\* C11 witness: with a record open, "foo" and then the total-time text
\* without its leading space were handled.
C11_Witness ==
    \E r \in Runs :
        /\ input[r] = <<LineStep3, LineOther, LineTotalTimeNoSpace>>
        /\ Completed(r, 3)
        /\ current_step_info[r] = Some(FreshRecord(3))
        /\ Msgs(emitted[r]) =
               <<MsgNewStepInfo(FreshRecord(3)), MsgLine(LineStep3),
                 MsgLine(LineOther), MsgLine(LineTotalTimeNoSpace)>>

\* The GUI applies one message of channel r in this step.
Applies(r) == Len(applied'[r]) = Len(applied[r]) + 1

\* The message the GUI applies in this step.
AppliedNow(r) == applied'[r][Len(applied'[r])]

\* C12: applying UpdateStepInfo puts the snapshot in the last row of the
\* step table whatever step number that row has, keeps the number of rows
\* and every earlier row (an empty table stays empty), and touches neither
\* transcript nor plot series.
C12_UpdateReplacesLastRow ==
    [][\A r \in Runs :
          (Applies(r) /\ AppliedNow(r).tag = "UpdateStepInfo") =>
              /\ Len(step_info') = Len(step_info)
              /\ \A j \in 1..(Len(step_info) - 1) :
                    step_info'[j] = step_info[j]
              /\ step_info # <<>> =>
                    step_info'[Len(step_info)] = AppliedNow(r).info
              /\ UNCHANGED <<solver_output_buffer, residual_data>>]_vars

\* C12 witness: the rows of steps 1 and 2 were appended and a snapshot of
\* step 1 was then applied: it sits in the second row, the first row is as
\* it was appended.
C12_Witness ==
    /\ Len(applied[1]) = 3
    /\ applied[1][1] = MsgNewStepInfo([DefaultStepInfo EXCEPT !.step = 1])
    /\ applied[1][2] = MsgNewStepInfo([DefaultStepInfo EXCEPT !.step = 2])
    /\ applied[1][3].tag = "UpdateStepInfo"
    /\ applied[1][3].info.step = 1
    /\ step_info = <<[DefaultStepInfo EXCEPT !.step = 1], applied[1][3].info>>

\* One message applied to a display state <<buffer, residuals, steps>>.
ApplyTo(m, d) == ApplyMessage(m, d[1], d[2], d[3])

RECURSIVE Replay(_)
\* The display state that applying the messages ms in order to an empty
\* display gives.
Replay(ms) ==
    IF ms = <<>> THEN <<<<>>, <<>>, <<>>>>
    ELSE ApplyTo(ms[Len(ms)], Replay(SubSeq(ms, 1, Len(ms) - 1)))

\* C13: a run that was started shows nothing of earlier runs: its display
\* state (transcript, plot series, step table) is what the messages
\* received from its own channel, all of them sent by its own thread, give
\* when applied to an empty display; while it is running its own fresh
\* channel is the one installed; and a step applies messages only from the
\* channel installed, never from the channel of an earlier run.
C13_RunStartsClean ==
    [][\A r \in Runs :
          /\ (runs' = r /\ tpc'[r] # "none") =>
                /\ <<Transcript', residual_data', step_info'>>
                       = Replay(applied'[r])
                /\ IsPrefix(applied'[r], Msgs(emitted'[r]))
                /\ is_running' => line_receiver' = r
          /\ runs' # runs =>
                /\ runs' > runs /\ line_receiver' = runs'
                /\ queue[runs'] = <<>> /\ applied[runs'] = <<>>
                /\ emitted[runs'] = <<>>
          /\ applied'[r] # applied[r] => (r = runs /\ r = line_receiver)
      ]_vars

\* C13 witness: the first run was stopped after its thread had sent
\* messages, the thread is still alive, and the second run has applied a
\* message of its own.
C13_Witness ==
    /\ runs = 2
    /\ stopMark[1] >= 0
    /\ tpc[1] \in {"read", "send"}
    /\ emitted[1] # <<>>
    /\ applied[2] # <<>>
    /\ line_receiver = 2

\* C14: a Run click either starts a thread and leaves the app running, or
\* (spawn failed) in the same step puts the failure text in the transcript,
\* leaves the app not running, stores no handle and starts no thread; for
\* a run whose spawn failed no thread ever starts, no line is read, no
\* message is sent or applied, and no handle is ever stored or consumed.
C14_SpawnFailure ==
    [][/\ runs' # runs =>
            /\ (tpc'[runs'] = "none") <=> ~is_running'
            /\ tpc'[runs'] = "none" =>
                  /\ solver_output_buffer' = <<FailedToStart>>
                  /\ solver_process' = 0
                  /\ ~sender'[runs']
       /\ \A r \in 1..runs :
            tpc[r] = "none" =>
                /\ tpc'[r] = "none"
                /\ input'[r] = <<>> /\ emitted'[r] = <<>>
                /\ queue'[r] = <<>> /\ applied'[r] = <<>>
                /\ solver_process' # r /\ handleUse'[r] = {}
      ]_vars

\* C14 witness: the spawn of a run failed, the failure text is the
\* transcript, and a later frame has found the channel disconnected.
C14_Witness ==
    \E r \in Runs :
        /\ runs = r
        /\ tpc[r] = "none"
        /\ solver_output_buffer = <<FailedToStart>>
        /\ ~is_running /\ solver_process = 0
        /\ finalized[r] = 1

\* The i-th line of thread r is handled by the increment rule: a record is
\* open and the trimmed line starts with "increment ".
IncrementRuleApplies(r, i) ==
    /\ before[r][i].cur # None
    /\ ~IsStepLine(input[r][i])
    /\ IsIncrementLine(input[r][i])

\* C15 as claimed: ResetResiduals is sent, or the counter zeroed, only for
\* a line read with a record open that starts untrimmed with "increment "
\* and has at least four tokens.
C15_ResetOnlyUntrimmedFourTokens ==
    \A r \in Runs : \A i \in 1..Len(input[r]) :
        (\/ CountTag(EventsOfLine(r, i), "ResetResiduals") > 0
         \/ After(r, i).cnt < before[r][i].cnt) =>
            /\ before[r][i].cur # None
            /\ StartsWith(input[r][i], PrefixIncrement)
            /\ Len(Parts(r, i)) >= 4

\* C15 as amended: ResetResiduals is sent, once and first, and the counter
\* zeroed, for exactly the lines read with a record open whose trimmed text
\* starts with "increment ", whatever their number of tokens; every other
\* line sends no ResetResiduals and does not lower the counter.
C15_ResetForTrimmedIncrement ==
    \A r \in Runs : \A i \in 1..Len(input[r]) :
        IF IncrementRuleApplies(r, i)
        THEN Completed(r, i) =>
                /\ EventsOfLine(r, i)[1] = MsgResetResiduals
                /\ CountTag(EventsOfLine(r, i), "ResetResiduals") = 1
                /\ After(r, i).cnt = 0
        ELSE /\ CountTag(EventsOfLine(r, i), "ResetResiduals") = 0
             /\ After(r, i).cnt >= before[r][i].cnt

\* C15 witness: with the counter at 1, "increment 7" (two tokens) sent
\* ResetResiduals and zeroed the counter.
C15_Witness ==
    \E r \in Runs :
        /\ input[r] = <<LineStep3, LineResidual, LineIncrementShort>>
        /\ Completed(r, 3)
        /\ before[r][3].cnt = 1
        /\ EventsOfLine(r, 3) =
               <<MsgResetResiduals, MsgLine(LineIncrementShort)>>
        /\ total_iterations_for_residual[r] = 0

\* The line is the token STEP, whitespace and an integer, possibly with
\* further tokens.
IsStepTokenThenInteger(toks) ==
    /\ Len(toks) >= 2
    /\ toks[1] = PrefixStep
    /\ ParseU32(toks[2]) # ParseErr

\* The first token of the line begins with STEP without being the token
\* STEP.
FirstTokenOnlyBeginsWithStep(toks) ==
    /\ toks # <<>>
    /\ StartsWith(toks[1], PrefixStep)
    /\ toks[1] # PrefixStep

\* C16: a line that is the token STEP, whitespace, an integer n and
\* possibly further tokens opens the record of step n, the integer right
\* after STEP; a line whose first token only begins with STEP opens no
\* record and sends no NewStepInfo.
C16_StepNumberFollowsToken ==
    \A r \in Runs : \A i \in 1..Len(input[r]) :
        /\ IsStepTokenThenInteger(Parts(r, i)) =>
              After(r, i).cur = Some(FreshRecord(ParseU32(Parts(r, i)[2])))
        /\ FirstTokenOnlyBeginsWithStep(Parts(r, i)) =>
              /\ After(r, i).cur = before[r][i].cur
              /\ CountTag(EventsOfLine(r, i), "NewStepInfo") = 0

\* The i-th line of thread r is an increment line of at least four tokens
\* whose second or fourth token does not parse, read with a record open.
IncrementFailsToParse(r, i) ==
    /\ IncrementRuleApplies(r, i)
    /\ Len(Parts(r, i)) >= 4
    /\ \/ ParseU32(Parts(r, i)[2]) = ParseErr
       \/ ParseU32(Parts(r, i)[4]) = ParseErr

\* C17: with a record open, an increment line of at least four tokens
\* whose token[1] or token[3] does not parse sends exactly ResetResiduals
\* and then Line (no UpdateStepInfo), zeroes the counter and leaves the
\* record, increment, attempt and iterations included, as it was; the
\* thread goes on to its next read.
C17_IncrementParseFailure ==
    \A r \in Runs : \A i \in 1..Len(input[r]) :
        (IncrementFailsToParse(r, i) /\ Completed(r, i)) =>
            /\ EventsOfLine(r, i) =
                   <<MsgResetResiduals, MsgLine(input[r][i])>>
            /\ After(r, i).cnt = 0
            /\ After(r, i).cur = before[r][i].cur
            /\ i = Len(input[r]) => tpc[r] = "read" \/ tpc[r] = "done"

\* C17 witness: with a record open and the counter at 1,
\* "increment 9 of x" sent ResetResiduals and Line, zeroed the counter and
\* left the record alone.
C17_Witness ==
    \E r \in Runs :
        /\ input[r] = <<LineStep3, LineResidual, LineIncrementBadAttempt>>
        /\ Completed(r, 3)
        /\ before[r][3].cnt = 1
        /\ total_iterations_for_residual[r] = 0
        /\ current_step_info[r] = Some(FreshRecord(3))
        /\ EventsOfLine(r, 3) =
               <<MsgResetResiduals, MsgLine(LineIncrementBadAttempt)>>

\* The line passes the prefix test of one of the four sub-rules.
HasSubRulePrefix(line) ==
    \/ IsIncrementLine(line)
    \/ IsIterationLine(line)
    \/ IsTotalTimeLine(line)
    \/ IsResidualLine(line)

\* C18: with no record open, a line with the increment, iteration,
\* total-time or residual prefix sends only Line: no ResetResiduals,
\* UpdateStepInfo or Residual; no record is opened and the counter stays as
\* it was.
C18_NoRecordOnlyRawLine ==
    \A r \in Runs : \A i \in 1..Len(input[r]) :
        (before[r][i].cur = None /\ HasSubRulePrefix(input[r][i])) =>
            /\ After(r, i) = before[r][i]
            /\ \A j \in PositionsOfLine(r, i) :
                  emitted[r][j].msg = MsgLine(input[r][i])
            /\ Completed(r, i) =>
                  EventsOfLine(r, i) = <<MsgLine(input[r][i])>>

\* C18 witness: before any STEP line an increment line, an iteration line
\* and a residual line were handled; three Line messages were sent and no
\* record is open.
C18_Witness ==
    \E r \in Runs :
        /\ input[r] = <<LineIncrement7Of2, LineIteration, LineResidual>>
        /\ Completed(r, 3)
        /\ current_step_info[r] = None
        /\ total_iterations_for_residual[r] = 0
        /\ Msgs(emitted[r]) =
               <<MsgLine(LineIncrement7Of2), MsgLine(LineIteration),
                 MsgLine(LineResidual)>>

\* The i-th line of thread r is handled by the iteration rule.
IterationRuleApplies(r, i) ==
    /\ before[r][i].cur # None
    /\ ~IsStepLine(input[r][i])
    /\ ~IsIncrementLine(input[r][i])
    /\ IsIterationLine(input[r][i])

\* The record an iteration line leaves: iterations one more, the other
\* fields as before the line.
IterationSnapshot(r, i) ==
    [before[r][i].cur[1] EXCEPT
        !.iterations = before[r][i].cur[1].iterations + 1]

\* C19: with a record open, a line whose trimmed text starts with
\* "iteration " adds exactly 1 to iterations, leaves step, increment,
\* attempt, total_time and the residual counter as they were, and sends
\* exactly UpdateStepInfo with the new record and then Line.
C19_IterationLine ==
    \A r \in Runs : \A i \in 1..Len(input[r]) :
        IterationRuleApplies(r, i) =>
            /\ After(r, i).cur = Some(IterationSnapshot(r, i))
            /\ After(r, i).cnt = before[r][i].cnt
            /\ Completed(r, i) =>
                  EventsOfLine(r, i) =
                      <<MsgUpdateStepInfo(IterationSnapshot(r, i)),
                        MsgLine(input[r][i])>>

\* C19 witness: in step 3 two iteration lines (written with a leading
\* space) were handled; the second left iterations at 2.
C19_Witness ==
    \E r \in Runs :
        /\ input[r] = <<LineStep3, LineIteration, LineIteration>>
        /\ Completed(r, 3)
        /\ current_step_info[r] = Some([FreshRecord(3) EXCEPT !.iterations = 2])
        /\ EventsOfLine(r, 3) =
               <<MsgUpdateStepInfo([FreshRecord(3) EXCEPT !.iterations = 2]),
                 MsgLine(LineIteration)>>

\* The i-th line of thread r is handled by the residual rule.
ResidualRuleApplies(r, i) ==
    /\ before[r][i].cur # None
    /\ ~IsStepLine(input[r][i])
    /\ ~IsIncrementLine(input[r][i])
    /\ ~IsIterationLine(input[r][i])
    /\ ~IsTotalTimeLine(input[r][i])
    /\ IsResidualLine(input[r][i])

\* The value of a residual line: <<v>> if it parses, <<>> if not.
ResidualValue(r, i) == ParseResidual(AfterFirstEq(input[r][i]))

\* C20: with a record open, a residual line whose value parses (0.005 for
\* " largest residual force= 0.005 N") sends exactly Residual, with the
\* counter after its increment, and then Line, no UpdateStepInfo, and
\* leaves the record as it was; one whose value does not parse sends only
\* Line and leaves record and counter as they were.
C20_ResidualLine ==
    \A r \in Runs : \A i \in 1..Len(input[r]) :
        ResidualRuleApplies(r, i) =>
            /\ input[r][i] = LineResidual => ResidualValue(r, i) = <<<<5, 3>>>>
            /\ input[r][i] = LineResidualBad => ResidualValue(r, i) = None
            /\ After(r, i).cur = before[r][i].cur
            /\ IF ResidualValue(r, i) # None
               THEN /\ After(r, i).cnt = before[r][i].cnt + 1
                    /\ Completed(r, i) =>
                          EventsOfLine(r, i) =
                              <<MsgResidual(
                                    ResidualData(before[r][i].cur[1].step,
                                                 before[r][i].cnt + 1,
                                                 ResidualValue(r, i)[1])),
                                MsgLine(input[r][i])>>
               ELSE /\ After(r, i).cnt = before[r][i].cnt
                    /\ Completed(r, i) =>
                          EventsOfLine(r, i) = <<MsgLine(input[r][i])>>

\* C20 witness: in step 3 a residual line that parses and one that does
\* not were handled: the counter is 1, the record is as STEP left it, and
\* no UpdateStepInfo was sent.
C20_Witness ==
    \E r \in Runs :
        /\ input[r] = <<LineStep3, LineResidual, LineResidualBad>>
        /\ Completed(r, 3)
        /\ total_iterations_for_residual[r] = 1
        /\ current_step_info[r] = Some(FreshRecord(3))
        /\ CountTag(Msgs(emitted[r]), "UpdateStepInfo") = 0
        /\ CountTag(Msgs(emitted[r]), "Residual") = 1

\* The i-th line of thread r starts, untrimmed, with " actual total time="
\* and is read with a record open.
TotalTimePrefixWithRecord(r, i) ==
    /\ before[r][i].cur # None
    /\ StartsWith(input[r][i], PrefixTotalTime)

\* The value of a total-time line: <<v>> if it parses, <<>> if not.
TotalTimeValue(r, i) == ParseTotalTime(AfterFirstEq(input[r][i]))

\* The record a total-time line leaves when its value parses.
TotalTimeSnapshot(r, i) ==
    [before[r][i].cur[1] EXCEPT !.total_time = TotalTimeValue(r, i)[1]]

\* C21: with a record open, a line with the untrimmed prefix
\* " actual total time=" whose value parses (1.5 for
\* " actual total time= 1.5") sets total_time to it and sends exactly
\* UpdateStepInfo and then Line; one whose value does not parse leaves the
\* record as it was and sends only Line; the counter is untouched; and the
\* text without its leading space changes nothing and sends only Line.
C21_TotalTimeLine ==
    \A r \in Runs : \A i \in 1..Len(input[r]) :
        /\ TotalTimePrefixWithRecord(r, i) =>
              /\ input[r][i] = LineTotalTime =>
                     TotalTimeValue(r, i) = <<<<15, 1>>>>
              /\ input[r][i] = LineTotalTimeBad => TotalTimeValue(r, i) = None
              /\ After(r, i).cnt = before[r][i].cnt
              /\ IF TotalTimeValue(r, i) # None
                 THEN /\ After(r, i).cur = Some(TotalTimeSnapshot(r, i))
                      /\ Completed(r, i) =>
                            EventsOfLine(r, i) =
                                <<MsgUpdateStepInfo(TotalTimeSnapshot(r, i)),
                                  MsgLine(input[r][i])>>
                 ELSE /\ After(r, i).cur = before[r][i].cur
                      /\ Completed(r, i) =>
                            EventsOfLine(r, i) = <<MsgLine(input[r][i])>>
        /\ (before[r][i].cur # None
            /\ <<" ">> \o input[r][i] = LineTotalTime) =>
              /\ After(r, i) = before[r][i]
              /\ Completed(r, i) =>
                    EventsOfLine(r, i) = <<MsgLine(input[r][i])>>

\* C21 witness: in step 3 " actual total time= 1.5" set total_time to 1.5
\* and " actual total time= x" then left it there, sending only Line.
C21_Witness ==
    \E r \in Runs :
        /\ input[r] = <<LineStep3, LineTotalTime, LineTotalTimeBad>>
        /\ Completed(r, 3)
        /\ current_step_info[r] =
               Some([FreshRecord(3) EXCEPT !.total_time = <<15, 1>>])
        /\ EventsOfLine(r, 3) = <<MsgLine(LineTotalTimeBad)>>
        /\ Len(EventsOfLine(r, 2)) = 2

\* The loop of thread r ends at reader.lines() in this step: the stream
\* ended or a read failed.
LoopEndsAtRead(r) == tpc[r] = "read" /\ tpc'[r] = "done"

\* C22: when the loop ends at a read (a failed read, like the end of the
\* stream) the thread sends nothing, drops its sender and changes nothing
\* in the GUI; the messages sent before are all still there, applied or
\* queued, in the order sent, as long as the GUI holds the receiver; and
\* when the GUI has finalized the run, which an empty-queue poll of the
\* dropped sender's channel always does, it has applied all of them.
C22_ReadFailureEndsRun ==
    [][\A r \in Runs :
          /\ LoopEndsAtRead(r) =>
                /\ emitted'[r] = emitted[r] /\ queue' = queue
                /\ input' = input
                /\ ~sender'[r]
                /\ UNCHANGED appVars
          /\ (tpc[r] = "done" /\ ReceiverAlive(r)) =>
                /\ ~sender[r]
                /\ applied[r] \o queue[r] = Msgs(emitted[r])
                /\ (PollsEmptyQueue(r) /\ cpc' # cpc) =>
                      /\ finalized'[r] = 1
                      /\ ~is_running' /\ solver_process' = 0
                      /\ applied'[r] = Msgs(emitted'[r])
                      /\ UNCHANGED <<solver_output_buffer, residual_data,
                                     step_info>>
      ]_vars

\* C22 witness: the loop of a running, never stopped run has ended at a
\* read with a message applied and another still queued.
C22_Witness ==
    \E r \in Runs :
        /\ tpc[r] = "done"
        /\ ReceiverAlive(r)
        /\ stopMark[r] = -1
        /\ applied[r] # <<>>
        /\ queue[r] # <<>>
        /\ cpc = "drain"

\* C23: in the poll phase a try_recv outcome is always at hand (the GUI
\* never waits for the thread); the phase ends only at a poll that finds
\* nothing queued, when every message sent so far, so every message queued
\* when the frame began, has been applied; and a poll that reports Empty
\* ends the phase with transcript, step table, plot series and the running
\* flag as they were.
C23_TickDrainsChannel ==
    [][/\ cpc = "drain" =>
            /\ line_receiver # 0
            /\ ENABLED (RecvOk \/ RecvEmpty \/ RecvDisconnected)
       /\ (cpc = "drain" /\ cpc' # "drain") =>
            /\ cpc' = "ui"
            /\ queue[line_receiver] = <<>>
            /\ applied[line_receiver] = Msgs(emitted[line_receiver])
            /\ UNCHANGED <<solver_output_buffer, residual_data, step_info,
                           applied>>
            /\ sender[line_receiver] =>
                  UNCHANGED <<is_running, line_receiver, solver_process,
                              start_time>>
      ]_vars

\* C23 witness: a poll phase has just ended with Empty after two messages
\* of the running run were applied.
C23_Witness ==
    \E r \in Runs :
        /\ cpc = "ui"
        /\ ReceiverAlive(r)
        /\ sender[r]
        /\ is_running
        /\ Len(applied[r]) = 2
        /\ applied[r] = Msgs(emitted[r])

\* The handle of the latest run has been consumed, by Stop or by the
\* Disconnected arm.
HandleTaken == runs # 0 /\ handleUse[runs] # {} /\ solver_process = 0

\* C24: a step at the buttons that starts no run (a cancel, requested in
\* any state, or no click) appends nothing to transcript, step table and
\* plot series and sends no message; and when the handle has already been
\* taken, by an earlier cancel or by the Disconnected arm, it changes
\* nothing at all and kills nothing.
C24_CancelIdempotent ==
    [][(cpc = "ui" /\ cpc' = "idle" /\ runs' = runs) =>
          /\ UNCHANGED <<solver_output_buffer, residual_data, step_info,
                         emitted, applied>>
          /\ HandleTaken =>
                UNCHANGED <<solver_process, line_receiver, is_running,
                            start_time, queue, sender, killed, handleUse,
                            stopMark, finalized, threadVars>>
      ]_vars

\* C24 witness: a frame stands at the buttons after the run was cancelled
\* with messages applied, so that a second cancel can be requested.
C24_Witness ==
    /\ cpc = "ui"
    /\ runs = 1
    /\ handleUse[1] = {"stop"}
    /\ killed[1]
    /\ ~is_running
    /\ solver_output_buffer # <<>>

\* The position of the last ResetResiduals in ms, 0 if there is none.
LastResetIn(ms) ==
    LET ps == {p \in 1..Len(ms) : ms[p].tag = "ResetResiduals"}
    IN  IF ps = {} THEN 0 ELSE CHOOSE p \in ps : \A q \in ps : q <= p

\* The samples of the Residual messages of ms after its last
\* ResetResiduals, in order.
ResidualsSince(ms) ==
    LET rs == SelectSeq(SubSeq(ms, LastResetIn(ms) + 1, Len(ms)),
                        LAMBDA m : m.tag = "Residual")
    IN  [k \in 1..Len(rs) |-> rs[k].data]

\* C25: applying Residual appends exactly that sample to the plot series,
\* applying ResetResiduals empties it; after every applied message of a
\* run the plot series is the samples received since the last
\* ResetResiduals (or since the run's start), and the k-th of them has
\* sample index k.
C25_PlotSeries ==
    [][\A r \in Runs :
          Applies(r) =>
              /\ AppliedNow(r).tag = "Residual" =>
                    residual_data' =
                        Append(residual_data, AppliedNow(r).data)
              /\ AppliedNow(r).tag = "ResetResiduals" =>
                    residual_data' = <<>>
              /\ residual_data' = ResidualsSince(applied'[r])
              /\ \A k \in 1..Len(residual_data') :
                    residual_data'[k].total_iteration = k]_vars

\* C25 witness: two samples with the indices 1 and 2 were plotted, a
\* ResetResiduals emptied the series, and the series now holds one sample
\* with index 1.
C25_Witness ==
    /\ \E p \in 1..Len(applied[1]) :
          /\ applied[1][p].tag = "ResetResiduals"
          /\ Cardinality({q \in 1..(p - 1) :
                              applied[1][q].tag = "Residual"}) = 2
    /\ residual_data = <<ResidualData(3, 1, <<5, 3>>)>>

\* C26: whenever UpdateStepInfo is applied, the step table is not empty
\* and its last row has the step number of the message.
C26_UpdateHitsOwnRow ==
    [][\A r \in Runs :
          (Applies(r) /\ AppliedNow(r).tag = "UpdateStepInfo") =>
              /\ step_info # <<>>
              /\ step_info[Len(step_info)].step = AppliedNow(r).info.step
      ]_vars

\* C26 witness: the rows of steps 3 and 1 both took an UpdateStepInfo of
\* their own step.
C26_Witness ==
    step_info =
        <<[FreshRecord(3) EXCEPT !.increment = 7, !.attempt = 2],
          [FreshRecord(1) EXCEPT !.increment = 7, !.attempt = 2]>>

\* C27: a line handled by the STEP rule sends no ResetResiduals and leaves
\* the residual counter as it was, so of two Residual messages with
\* neither ResetResiduals nor Residual sent between them the second carries
\* the index of the first plus one, whatever their step numbers.  (That
\* the plot series can hold samples of two steps is the witness.)
C27_StepKeepsCounter ==
    \A r \in Runs :
        /\ \A i \in 1..Len(input[r]) :
              StartsWith(Trim(input[r][i]), PrefixStep) =>
                  /\ CountTag(EventsOfLine(r, i), "ResetResiduals") = 0
                  /\ After(r, i).cnt = before[r][i].cnt
        /\ \A j, k \in 1..Len(emitted[r]) :
              (/\ j < k
               /\ emitted[r][j].msg.tag = "Residual"
               /\ emitted[r][k].msg.tag = "Residual"
               /\ \A q \in (j + 1)..(k - 1) :
                     emitted[r][q].msg.tag
                         \notin {"Residual", "ResetResiduals"}) =>
                  emitted[r][k].msg.data.total_iteration =
                      emitted[r][j].msg.data.total_iteration + 1

\* C27 witness: the plot series holds the sample 1 of step 3 and, after
\* "  STEP 1 ", the sample 2 of step 1.
C27_Witness ==
    /\ input[1] = <<LineStep3, LineResidual, LineStep1Indented, LineResidual>>
    /\ residual_data = <<ResidualData(3, 1, <<5, 3>>),
                         ResidualData(1, 2, <<5, 3>>)>>

\* C28: between two calls of update is_running holds exactly when a process
\* handle is stored, and then a receiver is installed, handle and receiver
\* being those of the latest run; a run is started only while not running
\* and with no handle stored, and Stop takes a handle only while running.
C28_OneRunMonitored ==
    /\ [](cpc = "idle" =>
            /\ is_running <=> solver_process # 0
            /\ is_running => (line_receiver # 0 /\ line_receiver = runs
                              /\ solver_process = runs))
    /\ [][/\ runs' # runs => (~is_running /\ solver_process = 0)
          /\ (\E r \in Runs : "stop" \in handleUse'[r] \ handleUse[r]) =>
                is_running]_vars

\* C28 witness: the second run is being monitored between two frames while
\* the reader thread of the first, stopped, run has not ended yet.
C28_Witness ==
    /\ cpc = "idle"
    /\ is_running
    /\ runs = 2
    /\ solver_process = 2
    /\ line_receiver = 2
    /\ handleUse[1] = {"stop"}
    /\ tpc[1] = "read"

\* C29: once Stop has dropped the receiver of a run, its thread sends
\* nothing more; a thread that stands at a send makes no send and reads no
\* line, its next step ends it; a thread that stands at the read reads at
\* most one more line, whose first send ends it, or ends at the close of
\* the stream; an ended thread stays ended.
C29_DroppedReceiverEndsThread ==
    [][\A r \in Runs :
          stopMark[r] >= 0 =>
              /\ emitted'[r] = emitted[r]
              /\ Len(emitted[r]) = stopMark[r]
              /\ tpc[r] = "send" =>
                    /\ tpc'[r] \in {"send", "done"}
                    /\ pend'[r] = pend[r]
                    /\ input'[r] = input[r]
                    /\ current_step_info'[r] = current_step_info[r]
              /\ tpc[r] = "read" =>
                    \/ tpc'[r] = "read" /\ input'[r] = input[r]
                    \/ tpc'[r] = "done" /\ input'[r] = input[r]
                    \/ /\ tpc'[r] = "send"
                       /\ Len(input'[r]) = Len(input[r]) + 1
                       /\ pend'[r] # <<>>
              /\ tpc[r] = "done" =>
                    /\ tpc'[r] = "done"
                    /\ input'[r] = input[r]
                    /\ ~sender'[r]
      ]_vars

\* C29 witness: after Stop the thread read an increment line, its first
\* send (of ResetResiduals) failed and the thread ended with the three
\* sends of the line unmade.
C29_Witness ==
    /\ stopMark[1] >= 0
    /\ tpc[1] = "done"
    /\ input[1] = <<LineStep3, LineIncrement7Of2>>
    /\ Len(pend[1]) = 3
    /\ Msgs(emitted[1]) = <<MsgNewStepInfo(FreshRecord(3)), MsgLine(LineStep3)>>
    /\ ~sender[1]

\* The i-th line of thread r starts a new count of iterations: a STEP line
\* whose number parses, or an increment line whose numbers parse.
StartsIterationCount(r, i) ==
    \/ /\ StartsWith(Trim(input[r][i]), PrefixStep)
       /\ StepNumber(input[r][i]) # ParseErr
    \/ IncrementParses(r, i)

\* The last line up to the i-th that starts a new count, 0 if none.
LastCountStart(r, i) ==
    LET js == {j \in 1..i : StartsIterationCount(r, j)}
    IN  IF js = {} THEN 0 ELSE CHOOSE j \in js : \A k \in js : k <= j

\* The iteration lines handled after the last start of a count, up to the
\* i-th line.
IterationsSince(r, i) ==
    Cardinality({k \in (LastCountStart(r, i) + 1)..i :
                    IterationRuleApplies(r, k)})

\* C30: the iterations of every UpdateStepInfo sent, and of the open
\* record after every line, is the number of iteration lines handled since
\* the last STEP line that opened a record or increment line whose numbers
\* parsed; every other line (an increment line that fails to parse, a
\* residual, total-time or unmatched line, a STEP line without a number)
\* leaves the count as it is.
C30_IterationsCount ==
    \A r \in Runs : \A i \in 1..Len(input[r]) :
        /\ \A j \in PositionsOfLine(r, i) :
              emitted[r][j].msg.tag = "UpdateStepInfo" =>
                  emitted[r][j].msg.info.iterations = IterationsSince(r, i)
        /\ (Completed(r, i) /\ After(r, i).cur # None) =>
              After(r, i).cur[1].iterations = IterationsSince(r, i)
        /\ (Completed(r, i) /\ before[r][i].cur # None
            /\ ~StartsIterationCount(r, i)
            /\ ~IterationRuleApplies(r, i)) =>
              After(r, i).cur[1].iterations = before[r][i].cur[1].iterations

\* C30 witness: in step 3 an iteration line sent a snapshot with
\* iterations 1 and the increment line after it a snapshot with
\* iterations 0.
C30_Witness ==
    \E r \in Runs :
        /\ input[r] = <<LineStep3, LineIteration, LineIncrement7Of2>>
        /\ Completed(r, 3)
        /\ EventsOfLine(r, 2)[1].tag = "UpdateStepInfo"
        /\ EventsOfLine(r, 2)[1].info.iterations = 1
        /\ EventsOfLine(r, 3)[2].tag = "UpdateStepInfo"
        /\ EventsOfLine(r, 3)[2].info.iterations = 0

====
